---------------------------- MODULE Spec2Model ----------------------------
(***************************************************************************)
(* A model of eval/ddpm/generate_recons.py: the config parser __parse_str  *)
(* and the linear orchestration procedure generate_recons (checkpoint      *)
(* loads, dataset pipeline, device options, batch loader, predict loop).   *)
(***************************************************************************)
EXTENDS Integers, Sequences, FiniteSets, TLC

(***************************************************************************)
(* Bounds of the model.                                                    *)
(***************************************************************************)
MaxLen == 5

MaxSamples == 10

MaxBatch == 4

MaxSrcExtra == 1

(***************************************************************************)
(* Program constants.                                                      *)
(***************************************************************************)
TpuCores == 8

VARIABLES
    s,                   \* __parse_str: the argument of the call under test
    result,              \* __parse_str: the outcome of the call under test
    config,              \* the resolved configuration (immutable in a run)
    pc,                  \* position of generate_recons in its body
    error,               \* the exception that ended the run, "none" if none
    vae_chkpt,           \* snapshot read from config_vae.evaluation.chkpt_path
    vae,                 \* the VAE object
    attn_resolutions,    \* parsed attention resolutions
    dim_mults,           \* parsed channel multipliers
    ddpm_chkpt,          \* snapshot read from config_ddpm.evaluation.chkpt_path
    ddpm_wrapper,        \* the composite inference unit
    data_root,           \* number of images found under config_ddpm.data.root
    recons_dataset,
    ddpm_latent_dataset,
    pred_dataset,
    test_kwargs,
    loader_kws,
    val_loader,          \* the batches the loader delivers, in order
    batch_idx,           \* index of the next batch of the predict loop
    attempts,            \* batch indices handed to predict, in order
    calls,               \* invocations of the writer callback
    handed,              \* samples handed to the writer callback so far
    files                \* file indices written under save_path, in order

vars == <<s, result, config, pc, error, vae_chkpt, vae, attn_resolutions,
          dim_mults, ddpm_chkpt, ddpm_wrapper, data_root, recons_dataset,
          ddpm_latent_dataset, pred_dataset, test_kwargs, loader_kws,
          val_loader, batch_idx, attempts, calls, handed, files>>

(***************************************************************************)
(* Python values: a str is its sequence of characters, None is None.       *)
(***************************************************************************)
Str(chars) == [tag |-> "str", chars |-> chars]

None == [tag |-> "None", chars |-> <<>>]

Alphabet == {"1", "3", ",", "a", " ", "-"}

RECURSIVE SeqsUpTo(_, _)
SeqsUpTo(A, n) ==
    IF n = 0 THEN {<<>>}
    ELSE LET shorter == SeqsUpTo(A, n - 1)
         IN  shorter \cup {Append(q, a) : q \in shorter, a \in A}

Digits == {"0", "1", "2", "3", "4", "5", "6", "7", "8", "9"}

DigitVal(c) ==
    CASE c = "0" -> 0 [] c = "1" -> 1 [] c = "2" -> 2 [] c = "3" -> 3
      [] c = "4" -> 4 [] c = "5" -> 5 [] c = "6" -> 6 [] c = "7" -> 7
      [] c = "8" -> 8 [] c = "9" -> 9

Whitespace == {" "}

(***************************************************************************)
(* str.split(","): one token per comma plus one, empty tokens included.    *)
(***************************************************************************)
RECURSIVE Split(_)
Split(chars) ==
    IF \A i \in 1..Len(chars) : chars[i] # ","
    THEN <<chars>>
    ELSE LET i == CHOOSE j \in 1..Len(chars) :
                      /\ chars[j] = ","
                      /\ \A k \in 1..(j - 1) : chars[k] # ","
         IN  <<SubSeq(chars, 1, i - 1)>> \o Split(SubSeq(chars, i + 1, Len(chars)))

(***************************************************************************)
(* int(str): surrounding whitespace is stripped, one optional sign, then   *)
(* one or more decimal digits; anything else raises ValueError.            *)
(***************************************************************************)
RECURSIVE LStrip(_)
LStrip(t) ==
    IF t # <<>> /\ Head(t) \in Whitespace THEN LStrip(Tail(t)) ELSE t

RECURSIVE RStrip(_)
RStrip(t) ==
    IF t # <<>> /\ t[Len(t)] \in Whitespace
    THEN RStrip(SubSeq(t, 1, Len(t) - 1))
    ELSE t

Strip(t) == RStrip(LStrip(t))

Unsigned(t) == IF t # <<>> /\ Head(t) \in {"-", "+"} THEN Tail(t) ELSE t

RECURSIVE DecimalValue(_)
DecimalValue(d) ==
    IF d = <<>> THEN 0
    ELSE 10 * DecimalValue(SubSeq(d, 1, Len(d) - 1)) + DigitVal(d[Len(d)])

IsIntLiteral(t) ==
    LET d == Unsigned(Strip(t))
    IN  d # <<>> /\ \A i \in 1..Len(d) : d[i] \in Digits

PyInt(t) ==
    IF IsIntLiteral(t)
    THEN LET u == Strip(t)
             v == DecimalValue(Unsigned(u))
         IN  [raised |-> "none", value |-> IF Head(u) = "-" THEN 0 - v ELSE v]
    ELSE [raised |-> "ValueError", value |-> 0]

(***************************************************************************)
(* __parse_str: the filter of the comprehension, then the comprehension.   *)
(* A token of str.split is a str, so "s is not None" holds of every token. *)
(***************************************************************************)
KeepAll(t) == TRUE

KeepIntLiterals(t) == IsIntLiteral(t)

KeepToken(t) == t # <<>>

RECURSIVE IntsOf(_)
IntsOf(tokens) ==
    IF tokens = <<>> THEN [raised |-> "none", value |-> <<>>]
    ELSE IF ~KeepToken(Head(tokens)) THEN IntsOf(Tail(tokens))
    ELSE LET first == PyInt(Head(tokens))
         IN  IF first.raised # "none"
             THEN [raised |-> first.raised, value |-> <<>>]
             ELSE LET rest == IntsOf(Tail(tokens))
                  IN  IF rest.raised # "none" THEN rest
                      ELSE [raised |-> "none",
                            value |-> <<first.value>> \o rest.value]

ParseStr(x) ==
    IF x.tag # "str"
    THEN [raised |-> "AttributeError", value |-> <<>>]
    ELSE IntsOf(Split(x.chars))

(***************************************************************************)
(* The specification of the pure function: one call on a bounded input.    *)
(***************************************************************************)
NotCalled == [raised |-> "pending", value |-> <<>>]

ParseInputs == {None} \cup {Str(c) : c \in SeqsUpTo(Alphabet, MaxLen)}


(***************************************************************************)
(* Exceptions: generate_recons has no handler, so a raise ends the run.    *)
(***************************************************************************)
GotoSwallowed(raised, next) == next

Goto(raised, next) == IF raised = "none" THEN next ELSE "aborted"

(***************************************************************************)
(* Checkpoints.  A snapshot is unreadable (missing or malformed file) or   *)
(* holds a set of parameter names, some of them with a wrong shape.        *)
(***************************************************************************)
Unread == [state |-> "unread", keys |-> {}, bad |-> {}]

Snapshots(universe) ==
    {[state |-> "unreadable", keys |-> {}, bad |-> {}]}
    \cup {sn \in [state : {"read"}, keys : SUBSET universe, bad : SUBSET universe] :
            sn.bad \subseteq sn.keys}

VaeOwnKeys == {"enc", "dec"}

VaeKeys == {"vae"}

DiffKeys == {"online_network", "target_network"}

WrapperKeys == VaeKeys \cup DiffKeys

(***************************************************************************)
(* load_from_checkpoint: read the file, then load_state_dict(strict).      *)
(* A shape mismatch always raises; a missing or unexpected name raises     *)
(* only under strict.  A name that is not restored keeps the value the     *)
(* object was constructed with.                                            *)
(***************************************************************************)
LoadFromCheckpoint(modelKeys, snap, strict) ==
    LET missing    == modelKeys \ snap.keys
        unexpected == snap.keys \ modelKeys
        mismatched == snap.bad \cap modelKeys
    IN  IF snap.state # "read"
        THEN [raised |-> "CheckpointError", restored |-> {}, initial |-> modelKeys]
        ELSE IF mismatched # {} \/ (strict /\ (missing # {} \/ unexpected # {}))
        THEN [raised |-> "RuntimeError", restored |-> {}, initial |-> modelKeys]
        ELSE [raised |-> "none",
              restored |-> modelKeys \cap snap.keys,
              initial |-> missing]

VaeStrict == TRUE

WrapperStrictMutant == TRUE

WrapperStrict == FALSE

Unbuilt == [state |-> "unbuilt", restored |-> {}, initial |-> {}]

(***************************************************************************)
(* Dataset pipeline.  Positions are 0-based, as the file indices are.      *)
(***************************************************************************)
Image(i) == [kind |-> "image", pos |-> i]

Noise(i) == [kind |-> "noise", pos |-> i]

Min(a, b) == IF a <= b THEN a ELSE b

ReconstructionDataset(nImages, subsample_size) ==
    [i \in 1..Min(nImages, subsample_size) |-> Image(i - 1)]

TensorDataset(n) == [i \in 1..n |-> Noise(i - 1)]

ZipDataset(recons, latent) ==
    [i \in 1..Min(Len(recons), Len(latent)) |-> <<recons[i], latent[i]>>]

PredDatasetSwapped(recons, latent) == ZipDataset(latent, recons)

PredDataset(recons, latent) == ZipDataset(recons, latent)

(***************************************************************************)
(* Device options.                                                         *)
(***************************************************************************)
StartsWith(chars, prefix) ==
    /\ Len(chars) >= Len(prefix)
    /\ SubSeq(chars, 1, Len(prefix)) = prefix

Gpu == <<"g", "p", "u">>

Tpu == <<"t", "p", "u">>

Devices == {Gpu \o <<":", "0">>,
            Gpu \o <<":", "0", ",", "1">>,
            Tpu,
            <<"c", "p", "u">>,
            Tpu \o <<":", "0">>}

AfterColon(chars) ==
    LET i == CHOOSE j \in 1..Len(chars) :
                 /\ chars[j] = ":"
                 /\ \A k \in 1..(j - 1) : chars[k] # ":"
    IN  SubSeq(chars, i + 1, Len(chars))

ConfigureDevice(device) == IntsOf(Split(AfterColon(device))).value

IsGpuExact(device) == device = Gpu

IsGpu(device) == StartsWith(device, Gpu)

IsTpu(device) == device = Tpu

NoKwargs == [keys |-> {}, gpus |-> <<>>, tpu_cores |-> 0]

NoLoaderKws == [keys |-> {}, persistent_workers |-> FALSE]

TestKwargs(device) ==
    IF IsGpu(device)
    THEN [keys |-> {"gpus"}, gpus |-> ConfigureDevice(device), tpu_cores |-> 0]
    ELSE IF IsTpu(device)
    THEN [keys |-> {"tpu_cores"}, gpus |-> <<>>, tpu_cores |-> TpuCores]
    ELSE NoKwargs

LoaderKws(device) ==
    IF IsGpu(device)
    THEN [keys |-> {"persistent_workers"}, persistent_workers |-> TRUE]
    ELSE NoLoaderKws

(***************************************************************************)
(* Batch loader: a sampler orders the positions, a batch sampler chunks    *)
(* them, and each batch is the items at its positions.                     *)
(***************************************************************************)
Perms(n) ==
    {f \in [1..n -> 1..n] : \A i, j \in 1..n : f[i] = f[j] => i = j}

Sampler(n, shuffle) ==
    IF shuffle THEN Perms(n) ELSE {[i \in 1..n |-> i]}

RECURSIVE BatchSampler(_, _, _)
BatchSampler(order, size, drop_last) ==
    IF order = <<>> THEN <<>>
    ELSE IF Len(order) < size
    THEN IF drop_last THEN <<>> ELSE <<order>>
    ELSE <<SubSeq(order, 1, size)>>
         \o BatchSampler(SubSeq(order, size + 1, Len(order)), size, drop_last)

DropLastMutant == TRUE

DropLast == FALSE

Shuffle == FALSE

DataLoaderBatches(dataset, order, size, drop_last) ==
    LET chunks == BatchSampler(order, size, drop_last)
    IN  [k \in 1..Len(chunks) |->
            [j \in 1..Len(chunks[k]) |-> dataset[chunks[k][j]]]]

DataLoaderRaises(num_workers, kws) ==
    IF kws.persistent_workers /\ num_workers = 0 THEN "ValueError" ELSE "none"

(***************************************************************************)
(* Predict loop: the registered callbacks, the files one batch produces,   *)
(* and what a failing batch does to the loop.                              *)
(***************************************************************************)
NoCallbacks == {}

Callbacks == {"write_callback"}

BatchFiles(k, size, m) == [j \in 1..m |-> k * size + (j - 1)]

SkipFailedBatch(k) == [pc |-> "predict", batch_idx |-> k + 1]

AfterFailedBatch(k) == [pc |-> "aborted", batch_idx |-> k]

(***************************************************************************)
(* The configuration a run is started with.                                *)
(***************************************************************************)
AttnConfigs == {Str(<<"1", ",", ",", "3", ",">>), Str(<<"1", ",", "a">>), None}

DimConfigs == {Str(<<"1", ",", "3">>), Str(<<" ">>)}

Configs ==
    [batch_size : 1..MaxBatch,
     n_samples : 0..MaxSamples,
     device : Devices,
     workers : {0, 2},
     attn_resolutions : AttnConfigs,
     dim_mults : DimConfigs]

IdleConfig ==
    [batch_size |-> 1, n_samples |-> 0, device |-> <<"c", "p", "u">>,
     workers |-> 0, attn_resolutions |-> None, dim_mults |-> None]

RunStart(c, at) ==
    /\ config = c
    /\ pc = at
    /\ error = "none"
    /\ vae_chkpt = Unread
    /\ vae = "unloaded"
    /\ attn_resolutions = <<>>
    /\ dim_mults = <<>>
    /\ ddpm_chkpt = Unread
    /\ ddpm_wrapper = Unbuilt
    /\ data_root = -1
    /\ recons_dataset = <<>>
    /\ ddpm_latent_dataset = <<>>
    /\ pred_dataset = <<>>
    /\ test_kwargs = NoKwargs
    /\ loader_kws = NoLoaderKws
    /\ val_loader = <<>>
    /\ batch_idx = 0
    /\ attempts = <<>>
    /\ calls = 0
    /\ handed = 0
    /\ files = <<>>

(***************************************************************************)
(* __parse_str called once on a bounded input.                             *)
(***************************************************************************)
InitParse ==
    /\ s \in ParseInputs
    /\ result = NotCalled
    /\ RunStart(IdleConfig, "idle")

CallParseStr ==
    /\ result = NotCalled
    /\ result' = ParseStr(s)
    /\ UNCHANGED <<s, config, pc, error, vae_chkpt, vae, attn_resolutions,
                   dim_mults, ddpm_chkpt, ddpm_wrapper, data_root,
                   recons_dataset, ddpm_latent_dataset, pred_dataset,
                   test_kwargs, loader_kws, val_loader, batch_idx, attempts,
                   calls, handed, files>>

NextParse == CallParseStr

SpecParse == InitParse /\ [][NextParse]_vars

(***************************************************************************)
(* generate_recons, one action per stage of its body.                      *)
(***************************************************************************)
Init ==
    /\ s = None
    /\ result = NotCalled
    /\ \E c \in Configs : RunStart(c, "load_vae")

LoadVAE ==
    /\ pc = "load_vae"
    /\ \E snap \in Snapshots(VaeOwnKeys) :
         LET r == LoadFromCheckpoint(VaeOwnKeys, snap, VaeStrict)
         IN  /\ vae_chkpt' = snap
             /\ vae' = IF r.raised = "none" THEN "eval" ELSE vae
             /\ pc' = Goto(r.raised, "parse")
             /\ error' = r.raised
    /\ UNCHANGED <<s, result, config, attn_resolutions, dim_mults, ddpm_chkpt,
                   ddpm_wrapper, data_root, recons_dataset,
                   ddpm_latent_dataset, pred_dataset, test_kwargs, loader_kws,
                   val_loader, batch_idx, attempts, calls, handed, files>>

ParseModelConfig ==
    /\ pc = "parse"
    /\ LET a == ParseStr(config.attn_resolutions)
           d == IF a.raised = "none" THEN ParseStr(config.dim_mults) ELSE a
       IN  /\ attn_resolutions' = a.value
           /\ dim_mults' = IF a.raised = "none" THEN d.value ELSE dim_mults
           /\ pc' = Goto(d.raised, "load_wrapper")
           /\ error' = d.raised
    /\ UNCHANGED <<s, result, config, vae_chkpt, vae, ddpm_chkpt, ddpm_wrapper,
                   data_root, recons_dataset, ddpm_latent_dataset,
                   pred_dataset, test_kwargs, loader_kws, val_loader,
                   batch_idx, attempts, calls, handed, files>>

LoadWrapper ==
    /\ pc = "load_wrapper"
    /\ \E snap \in Snapshots(WrapperKeys) :
         LET r == LoadFromCheckpoint(WrapperKeys, snap, WrapperStrict)
         IN  /\ ddpm_chkpt' = snap
             /\ ddpm_wrapper' =
                    IF r.raised = "none"
                    THEN [state |-> "loaded", restored |-> r.restored,
                          initial |-> r.initial]
                    ELSE ddpm_wrapper
             /\ pc' = Goto(r.raised, "dataset")
             /\ error' = r.raised
    /\ UNCHANGED <<s, result, config, vae_chkpt, vae, attn_resolutions,
                   dim_mults, data_root, recons_dataset, ddpm_latent_dataset,
                   pred_dataset, test_kwargs, loader_kws, val_loader,
                   batch_idx, attempts, calls, handed, files>>

BuildDatasets ==
    /\ pc = "dataset"
    /\ \E nImages \in 0..(MaxSamples + MaxSrcExtra) :
         LET recons == ReconstructionDataset(nImages, config.n_samples)
             latent == TensorDataset(config.n_samples)
         IN  /\ data_root' = nImages
             /\ recons_dataset' = recons
             /\ ddpm_latent_dataset' = latent
             /\ pred_dataset' = PredDataset(recons, latent)
    /\ pc' = "devices"
    /\ UNCHANGED <<s, result, config, error, vae_chkpt, vae, attn_resolutions,
                   dim_mults, ddpm_chkpt, ddpm_wrapper, test_kwargs,
                   loader_kws, val_loader, batch_idx, attempts, calls, handed,
                   files>>

SetupDevices ==
    /\ pc = "devices"
    /\ test_kwargs' = TestKwargs(config.device)
    /\ loader_kws' = LoaderKws(config.device)
    /\ pc' = "loader"
    /\ UNCHANGED <<s, result, config, error, vae_chkpt, vae, attn_resolutions,
                   dim_mults, ddpm_chkpt, ddpm_wrapper, data_root,
                   recons_dataset, ddpm_latent_dataset, pred_dataset,
                   val_loader, batch_idx, attempts, calls, handed, files>>

BuildLoader ==
    /\ pc = "loader"
    /\ LET raised == DataLoaderRaises(config.workers, loader_kws)
       IN  /\ \E order \in Sampler(Len(pred_dataset), Shuffle) :
                val_loader' =
                    IF raised = "none"
                    THEN DataLoaderBatches(pred_dataset, order,
                                           config.batch_size, DropLast)
                    ELSE val_loader
           /\ pc' = Goto(raised, "trainer")
           /\ error' = raised
    /\ UNCHANGED <<s, result, config, vae_chkpt, vae, attn_resolutions,
                   dim_mults, ddpm_chkpt, ddpm_wrapper, data_root,
                   recons_dataset, ddpm_latent_dataset, pred_dataset,
                   test_kwargs, loader_kws, batch_idx, attempts, calls,
                   handed, files>>

BuildTrainer ==
    /\ pc = "trainer"
    /\ test_kwargs' =
           [test_kwargs EXCEPT !.keys = @ \cup {"callbacks", "default_root_dir"}]
    /\ pc' = "predict"
    /\ UNCHANGED <<s, result, config, error, vae_chkpt, vae, attn_resolutions,
                   dim_mults, ddpm_chkpt, ddpm_wrapper, data_root,
                   recons_dataset, ddpm_latent_dataset, pred_dataset,
                   loader_kws, val_loader, batch_idx, attempts, calls, handed,
                   files>>

PredictBatch ==
    /\ pc = "predict"
    /\ batch_idx < Len(val_loader)
    /\ LET batch == val_loader[batch_idx + 1]
           n == Cardinality(Callbacks)
       IN  /\ calls' = calls + n
           /\ handed' = handed + n * Len(batch)
           /\ files' = IF n = 0 THEN files
                       ELSE files \o BatchFiles(batch_idx, config.batch_size,
                                                Len(batch))
    /\ attempts' = Append(attempts, batch_idx)
    /\ batch_idx' = batch_idx + 1
    /\ UNCHANGED <<s, result, config, pc, error, vae_chkpt, vae,
                   attn_resolutions, dim_mults, ddpm_chkpt, ddpm_wrapper,
                   data_root, recons_dataset, ddpm_latent_dataset,
                   pred_dataset, test_kwargs, loader_kws, val_loader>>

PredictBatchFails ==
    /\ pc = "predict"
    /\ batch_idx < Len(val_loader)
    /\ attempts' = Append(attempts, batch_idx)
    /\ error' = "PredictError"
    /\ pc' = AfterFailedBatch(batch_idx).pc
    /\ batch_idx' = AfterFailedBatch(batch_idx).batch_idx
    /\ UNCHANGED <<s, result, config, vae_chkpt, vae, attn_resolutions,
                   dim_mults, ddpm_chkpt, ddpm_wrapper, data_root,
                   recons_dataset, ddpm_latent_dataset, pred_dataset,
                   test_kwargs, loader_kws, val_loader, calls, handed, files>>

PredictEnd ==
    /\ pc = "predict"
    /\ batch_idx = Len(val_loader)
    /\ pc' = "done"
    /\ UNCHANGED <<s, result, config, error, vae_chkpt, vae, attn_resolutions,
                   dim_mults, ddpm_chkpt, ddpm_wrapper, data_root,
                   recons_dataset, ddpm_latent_dataset, pred_dataset,
                   test_kwargs, loader_kws, val_loader, batch_idx, attempts,
                   calls, handed, files>>

Next ==
    \/ LoadVAE
    \/ ParseModelConfig
    \/ LoadWrapper
    \/ BuildDatasets
    \/ SetupDevices
    \/ BuildLoader
    \/ BuildTrainer
    \/ PredictBatch
    \/ PredictBatchFails
    \/ PredictEnd

Spec == Init /\ [][Next]_vars

(***************************************************************************)
(* Notions the properties below are stated with.                           *)
(***************************************************************************)
Called == result # NotCalled

\* The non-empty tokens of a comma-separated string, by where they start.
TokenStarts(chars) ==
    {i \in 1..Len(chars) : chars[i] # "," /\ (i = 1 \/ chars[i - 1] = ",")}

TokenAt(chars, i) ==
    LET stop == CHOOSE e \in i..Len(chars) :
                    /\ \A k \in i..e : chars[k] # ","
                    /\ (e = Len(chars) \/ chars[e + 1] = ",")
    IN  SubSeq(chars, i, stop)

NthStart(chars, k) ==
    CHOOSE i \in TokenStarts(chars) :
        Cardinality({j \in TokenStarts(chars) : j <= i}) = k

AllTokensIntegers(chars) ==
    \A i \in TokenStarts(chars) : IsIntLiteral(TokenAt(chars, i))

HostDevice == test_kwargs.keys \cap {"gpus", "tpu_cores"} = {}

CeilDiv(n, b) == (n + b - 1) \div b

LoaderBuilt == pc \in {"trainer", "predict", "done"} \/ error = "PredictError"

FilesOfBatches(k) ==
    [i \in 1..Min(k * config.batch_size, Len(pred_dataset)) |-> i - 1]

(***************************************************************************)
(* C1: on the default host device a complete run over a paired dataset of  *)
(* n samples with batch size b calls the writer ceil(n/b) times, hands it  *)
(* n samples in total and writes every file index 0..n-1 exactly once      *)
(* (3 calls and indices 0..9 for n = 10, b = 4).                           *)
(***************************************************************************)
C1_EndToEnd ==
    (pc = "done" /\ HostDevice) =>
        LET n == Len(pred_dataset)
            b == config.batch_size
        IN  /\ calls = CeilDiv(n, b)
            /\ handed = n
            /\ Len(files) = n
            /\ \A i \in 0..(n - 1) :
                   Cardinality({j \in 1..Len(files) : files[j] = i}) = 1
            /\ (n = 10 /\ b = 4) => calls = 3

C1_Witness ==
    /\ pc = "done"
    /\ config.device = <<"c", "p", "u">>
    /\ config.n_samples = 10
    /\ config.batch_size = 4
    /\ Len(pred_dataset) = 10
    /\ calls = 3
    /\ handed = 10
    /\ files = <<0, 1, 2, 3, 4, 5, 6, 7, 8, 9>>

(***************************************************************************)
(* C2: the loader never shuffles and keeps the partial final batch: batch  *)
(* k holds exactly the dataset positions k*b .. min((k+1)*b, L)-1 in       *)
(* increasing order, whatever the device.                                  *)
(***************************************************************************)
C2_SequentialBatches ==
    LoaderBuilt =>
        LET L == Len(pred_dataset)
            b == config.batch_size
        IN  /\ Len(val_loader) = CeilDiv(L, b)
            /\ \A k \in 0..(Len(val_loader) - 1) :
                   /\ Len(val_loader[k + 1]) = Min((k + 1) * b, L) - k * b
                   /\ \A j \in 1..Len(val_loader[k + 1]) :
                          /\ val_loader[k + 1][j] = pred_dataset[k * b + j]
                          /\ val_loader[k + 1][j][1].pos = k * b + j - 1

C2_Witness ==
    /\ LoaderBuilt
    /\ StartsWith(config.device, Gpu)
    /\ Len(pred_dataset) = 10
    /\ config.batch_size = 4
    /\ Len(val_loader) = 3
    /\ Len(val_loader[3]) = 2
    /\ val_loader[3][2][1].pos = 9

C4_DeviceOptions ==
    pc \in {"loader", "trainer"} =>
        /\ StartsWith(config.device, Gpu) =>
               /\ test_kwargs.keys = {"gpus"}
               /\ config.device = Gpu \o <<":", "0", ",", "1">>
                      => test_kwargs.gpus = <<0, 1>>
               /\ config.device = Gpu \o <<":", "0">>
                      => test_kwargs.gpus = <<0>>
               /\ loader_kws = [keys |-> {"persistent_workers"},
                                persistent_workers |-> TRUE]
        /\ config.device = Tpu =>
               /\ test_kwargs = [keys |-> {"tpu_cores"}, gpus |-> <<>>,
                                 tpu_cores |-> 8]
               /\ loader_kws = NoLoaderKws
        /\ (~StartsWith(config.device, Gpu) /\ config.device # Tpu) =>
               /\ test_kwargs = NoKwargs
               /\ loader_kws = NoLoaderKws
        /\ ~({"gpus", "tpu_cores"} \subseteq test_kwargs.keys)

C4_Witness ==
    /\ pc = "loader"
    /\ config.device = Gpu \o <<":", "0", ",", "1">>
    /\ test_kwargs.gpus = <<0, 1>>
    /\ loader_kws.persistent_workers

(***************************************************************************)
(* C5: for a string whose non-empty tokens are all integers, __parse_str   *)
(* returns the integers of the non-empty tokens in their order; empty      *)
(* tokens are dropped, and "1,,3," gives [1, 3].                           *)
(***************************************************************************)
C5_ParseValid ==
    (Called /\ s.tag = "str" /\ AllTokensIntegers(s.chars)) =>
        /\ result.raised = "none"
        /\ Len(result.value) = Cardinality(TokenStarts(s.chars))
        /\ \A k \in 1..Len(result.value) :
               result.value[k] =
                   PyInt(TokenAt(s.chars, NthStart(s.chars, k))).value
        /\ s = Str(<<"1", ",", ",", "3", ",">>) => result.value = <<1, 3>>

C5_Witness ==
    /\ Called
    /\ s = Str(<<"1", ",", ",", "3", ",">>)
    /\ result = [raised |-> "none", value |-> <<1, 3>>]

(***************************************************************************)
(* C6: __parse_str on "" or on None gives an empty sequence and raises     *)
(* nothing.                                                                *)
(***************************************************************************)
C6_EmptyOrNone ==
    (Called /\ (s = Str(<<>>) \/ s = None)) =>
        result = [raised |-> "none", value |-> <<>>]

(***************************************************************************)
(* C10 as stated: __parse_str raises nothing when a non-empty token is not *)
(* an integer literal.                                                     *)
(***************************************************************************)
C10_NoErrorOnMalformed ==
    (Called /\ s.tag = "str" /\ ~AllTokensIntegers(s.chars)) =>
        result.raised = "none"

(***************************************************************************)
(* C10 amended: __parse_str raises ValueError exactly when some non-empty  *)
(* token is not an integer literal, and then returns no sequence.          *)
(***************************************************************************)
C10_ValueErrorOnMalformed ==
    (Called /\ s.tag = "str") =>
        /\ result.raised = "ValueError" <=> ~AllTokensIntegers(s.chars)
        /\ result.raised \in {"none", "ValueError"}
        /\ result.raised = "ValueError" => result.value = <<>>

C10_Witness ==
    /\ Called
    /\ s = Str(<<"1", ",", "a", ",", "3">>)
    /\ result.raised = "ValueError"

C8_FailFast ==
    /\ (\/ pc \in {"dataset", "devices", "loader", "trainer", "predict", "done"}
        \/ data_root # -1
        \/ attempts # <<>>
        \/ files # <<>>)
           => (/\ vae = "eval"
               /\ vae_chkpt.state = "read"
               /\ ddpm_wrapper.state = "loaded"
               /\ ddpm_chkpt.state = "read")
    /\ ddpm_chkpt.state # "unread" => vae = "eval"
    /\ (\/ vae_chkpt.state = "unreadable"
        \/ (vae_chkpt.state = "read"
              /\ (vae_chkpt.keys # VaeOwnKeys \/ vae_chkpt.bad # {}))
        \/ ddpm_chkpt.state = "unreadable")
           => (/\ pc = "aborted"
               /\ data_root = -1
               /\ attempts = <<>>
               /\ calls = 0
               /\ files = <<>>)

C8_Witness ==
    /\ vae = "eval"
    /\ ddpm_chkpt.state = "unreadable"
    /\ pc = "aborted"
    /\ files = <<>>

(***************************************************************************)
(* C9: batches are attempted in strict sequence, each once; a failure on   *)
(* batch k ends the run there, with the files of batches 0..k-1 on disk    *)
(* and no later batch processed or written; a finished run attempted every *)
(* batch.                                                                  *)
(***************************************************************************)
C9_AbortOnFailure ==
    /\ attempts = [i \in 1..Len(attempts) |-> i - 1]
    /\ error = "PredictError" =>
           /\ pc = "aborted"
           /\ Len(attempts) = batch_idx + 1
           /\ calls = batch_idx
           /\ files = FilesOfBatches(batch_idx)
    /\ pc = "done" =>
           /\ Len(attempts) = Len(val_loader)
           /\ error = "none"
    /\ pc = "predict" => Len(attempts) = batch_idx

C9_Witness ==
    /\ error = "PredictError"
    /\ pc = "aborted"
    /\ batch_idx = 1
    /\ Len(val_loader) = 3
    /\ attempts = <<0, 1>>
    /\ files = <<0, 1, 2, 3>>

=============================================================================
